---- MODULE Spec2Model ----
(***************************************************************************)
(* A model of translate.py: the Ren'Py translation-file filler.            *)
(*                                                                         *)
(* Text is modelled as sequences of one-character strings, so the regular  *)
(* expressions, str.splitlines, "\n".join, str.strip, str.lower/upper and  *)
(* the replacement-template expansion of re.sub are computed on characters *)
(* the way Python computes them.                                           *)
(***************************************************************************)
EXTENDS Integers, Sequences, FiniteSets, TLC

\* ------------------------------------------------------------------ bounds
\* Largest number of lines of a generated script file.
MaxLines == 3
\* Number of times the user runs the program on the same tree.
MaxRuns == 2

\* -------------------------------------------------------------- characters
QUOTE == "\""
BS == "\\"
NL == "\n"
TAB == "\t"
SP == " "

\* The characters Python's \s and str.strip() treat as white space, restricted
\* to the characters that occur in the model.
WhiteSpace == {SP, TAB, NL}

Lowers == <<"a","b","c","d","e","f","g","h","i","j","k","l","m",
            "n","o","p","q","r","s","t","u","v","w","x","y","z">>
Uppers == <<"A","B","C","D","E","F","G","H","I","J","K","L","M",
            "N","O","P","Q","R","S","T","U","V","W","X","Y","Z">>

IndexIn(c, alphabet) ==
    LET hits == {i \in 1..Len(alphabet) : alphabet[i] = c}
    IN IF hits = {} THEN 0 ELSE CHOOSE i \in hits : TRUE

\* str.lower() and str.upper(), character by character.
lower(s) ==
    [i \in 1..Len(s) |->
        IF IndexIn(s[i], Uppers) > 0 THEN Lowers[IndexIn(s[i], Uppers)] ELSE s[i]]
upper(s) ==
    [i \in 1..Len(s) |->
        IF IndexIn(s[i], Lowers) > 0 THEN Uppers[IndexIn(s[i], Lowers)] ELSE s[i]]

\* str.strip(): drop leading and trailing white space.
RECURSIVE strip(_)
strip(s) ==
    IF s = <<>> THEN s
    ELSE IF s[1] \in WhiteSpace THEN strip(Tail(s))
    ELSE IF s[Len(s)] \in WhiteSpace THEN strip(SubSeq(s, 1, Len(s) - 1))
    ELSE s

\* str.splitlines() for text whose only line boundary is "\n": a final
\* line break does not open another (empty) line.
RECURSIVE splitlines(_)
splitlines(text) ==
    IF text = <<>> THEN <<>>
    ELSE IF \E i \in 1..Len(text) : text[i] = NL
         THEN LET i == CHOOSE k \in 1..Len(text) :
                          text[k] = NL /\ \A m \in 1..(k - 1) : text[m] # NL
              IN <<SubSeq(text, 1, i - 1)>> \o splitlines(SubSeq(text, i + 1, Len(text)))
         ELSE <<text>>

\* "\n".join(lines)
RECURSIVE join(_)
join(ls) ==
    IF ls = <<>> THEN <<>>
    ELSE IF Len(ls) = 1 THEN ls[1]
    ELSE ls[1] \o <<NL>> \o join(Tail(ls))

\* ------------------------------------------------------ regular expressions
kw_old == <<"o","l","d">>
kw_new == <<"n","e","w">>

RECURSIVE SkipSpaces(_, _)
\* \s* from position i: the first position at or after i that is not white space.
SkipSpaces(s, i) ==
    IF i <= Len(s) /\ s[i] \in WhiteSpace THEN SkipSpaces(s, i + 1) ELSE i

HasAt(s, i, w) ==
    /\ i + Len(w) - 1 <= Len(s)
    /\ \A k \in 1..Len(w) : s[i + k - 1] = w[k]

\* The last position of s that holds a double quote, with no line break
\* between position `from` and it ('.' does not match "\n"); 0 when none.
LastQuote(s, from) ==
    LET breaks == {m \in (from + 1)..Len(s) : s[m] = NL}
        stop == IF breaks = {} THEN Len(s) + 1
                ELSE CHOOSE m \in breaks : \A r \in breaks : m <= r
        ok == {q \in (from + 1)..(stop - 1) : s[q] = QUOTE}
    IN IF ok = {} THEN 0 ELSE CHOOSE q \in ok : \A r \in ok : r <= q

\* re.compile(r'^\s*KW\s+"(.*)"').match(line): <<>> when there is no match,
\* <<group(1)>> when there is one. The greedy (.*) runs to the last quote.
DeclMatch(kw, line) ==
    LET a == SkipSpaces(line, 1)
        b == a + Len(kw)
        c == SkipSpaces(line, b)
        q == LastQuote(line, c)
    IN IF /\ HasAt(line, a, kw)
          /\ c > b
          /\ c <= Len(line)
          /\ line[c] = QUOTE
          /\ q > c
       THEN <<SubSeq(line, c + 1, q - 1)>>
       ELSE <<>>

old_pattern(line) == DeclMatch(kw_old, line)
new_pattern(line) == DeclMatch(kw_new, line)

\* Expansion of a re.sub replacement template (re._parser.parse_template):
\* "\n" and "\t" become the control characters, "\\" a single backslash, a
\* backslash before any other ASCII letter is the error "bad escape", and a
\* backslash before a character that is neither letter nor digit stays.
\* (Group references, a backslash before a digit or "g", need characters
\* that no text of the model contains.)
\* Result: [ok |-> BOOLEAN, text |-> the expanded text].
RECURSIVE ExpandTemplate(_)
ExpandTemplate(t) ==
    IF t = <<>> THEN [ok |-> TRUE, text |-> <<>>]
    ELSE IF t[1] # BS
         THEN LET r == ExpandTemplate(Tail(t))
              IN [ok |-> r.ok, text |-> <<t[1]>> \o r.text]
    ELSE IF Len(t) = 1 THEN [ok |-> FALSE, text |-> <<>>]
    ELSE LET r == ExpandTemplate(SubSeq(t, 3, Len(t)))
         IN IF t[2] = "n" THEN [ok |-> r.ok, text |-> <<NL>> \o r.text]
            ELSE IF t[2] = "t" THEN [ok |-> r.ok, text |-> <<TAB>> \o r.text]
            ELSE IF t[2] = BS THEN [ok |-> r.ok, text |-> <<BS>> \o r.text]
            ELSE IF IndexIn(t[2], Lowers) > 0 \/ IndexIn(t[2], Uppers) > 0
                 THEN [ok |-> FALSE, text |-> <<>>]
            ELSE [ok |-> r.ok, text |-> <<BS, t[2]>> \o r.text]

\* A match of r'new\s+".*"' starting at position p of line.
SubMatchAt(line, p) ==
    LET c == SkipSpaces(line, p + Len(kw_new))
    IN /\ HasAt(line, p, kw_new)
       /\ c > p + Len(kw_new)
       /\ c <= Len(line)
       /\ line[c] = QUOTE
       /\ LastQuote(line, c) > c

\* re.sub(r'new\s+".*"', f'new "{translation}"', line): the leftmost match is
\* replaced by the expanded template; the greedy match ends at the last quote
\* of the line, so no second match follows it.
\* The template is compiled before the search, so a bad template is an error
\* whether or not the line matches.
\* Result: [ok |-> BOOLEAN, text |-> the updated line].
re_sub(translation, line) ==
    LET ps == {p \in 1..Len(line) : SubMatchAt(line, p)}
        repl == ExpandTemplate(kw_new \o <<SP, QUOTE>> \o translation \o <<QUOTE>>)
    IN IF ~repl.ok THEN [ok |-> FALSE, text |-> line]
       ELSE IF ps = {} THEN [ok |-> TRUE, text |-> line]
       ELSE LET p == CHOOSE q \in ps : \A r \in ps : q <= r
                c == SkipSpaces(line, p + Len(kw_new))
            IN [ok |-> TRUE,
                text |-> SubSeq(line, 1, p - 1) \o repl.text
                         \o SubSeq(line, LastQuote(line, c) + 1, Len(line))]

\* ------------------------------------------------------------ the program
VARIABLES
    DEEPL_API_KEY,    \* TRUE when the environment holds a non-empty key
    args,             \* the parsed command line: language, all, formality
    fs,               \* game/tl: entry name -> [kind, files]
    pc,               \* "start", "dirs", "files", "lines", "done", "aborted"
    target_lang,      \* main: the resolved language code
    lang_dirs,        \* main: the directories to scan, in scan order
    di,               \* main: position in lang_dirs
    fi,               \* main: position in the current directory's files
    lines,            \* process_rpy_file: the lines read
    output_lines,     \* process_rpy_file: the lines to write
    buffer_old_text,  \* process_rpy_file: <<>> for None, <<text>> otherwise
    requests,         \* log: every HTTP POST sent, in order
    trace,            \* log: one record per line of the current file handled
    processed,        \* log: the files process_rpy_file was called on, this run
    written,          \* log: the files written back, this run
    error,            \* the exception that ended the run, "none" otherwise
    runs,             \* the number of the current run of the program
    snapshots         \* log: fs as it was at the end of each earlier run

vars == <<DEEPL_API_KEY, args, fs, pc, target_lang, lang_dirs, di, fi, lines,
          output_lines, buffer_old_text, requests, trace, processed, written,
          error, runs, snapshots>>

german == <<"g","e","r","m","a","n">>
spanish == <<"s","p","a","n","i","s","h">>
english == <<"e","n","g","l","i","s","h">>
french == <<"f","r","e","n","c","h">>
italian == <<"i","t","a","l","i","a","n">>
polish == <<"p","o","l","i","s","h">>

LANGUAGE_MAP ==
    [k \in {german, spanish, english, french, italian, polish} |->
        CASE k = german -> <<"D","E">>
          [] k = spanish -> <<"E","S">>
          [] k = english -> <<"E","N">>
          [] k = french -> <<"F","R">>
          [] k = italian -> <<"I","T">>
          [] k = polish -> <<"P","L">>]

\* LANGUAGE_MAP.get(user_lang, user_lang.upper())
TargetLang_NoUpper(user_lang) ==
    IF user_lang \in DOMAIN LANGUAGE_MAP THEN LANGUAGE_MAP[user_lang] ELSE user_lang
TargetLang(user_lang) ==
    IF user_lang \in DOMAIN LANGUAGE_MAP THEN LANGUAGE_MAP[user_lang]
    ELSE upper(user_lang)

\* Path.exists() and Path.is_dir() of game/tl/<name>
Exists(name) == name \in DOMAIN fs /\ fs[name].kind # "absent"
IsDir(name) == name \in DOMAIN fs /\ fs[name].kind = "dir"

\* The glob pattern "*.rpy" of rglob
rpy_suffix == <<".","r","p","y">>
IsRpy_Any(name) == TRUE
IsRpy(name) ==
    /\ Len(name) >= Len(rpy_suffix)
    /\ SubSeq(name, Len(name) - Len(rpy_suffix) + 1, Len(name)) = rpy_suffix

\* current_new_text.strip() == ""
IsBlank_Always(current_new_text) == TRUE
IsBlank(current_new_text) == strip(current_new_text) = <<>>

\* buffer_old_text is not None
HasPending(buf) == buf # <<>>

\* buffer_old_text = None  # reset
ResetBuffer_Keep(buf) == buf
ResetBuffer(buf) == <<>>

\* if not DEEPL_API_KEY
KeyMissing_Never(key) == FALSE
KeyMissing(key) == ~key

\* What one HTTP POST can come to: the connection fails or times out
\* (requests.post raises), the status is an error (raise_for_status raises),
\* the body is JSON without a first translation, or it carries a translation.
Failures == {"ConnectionError", "HTTPError", "NoTranslations"}
TransSet == { <<"x">>, <<BS, "n">>, <<BS, "x">> }
Outcomes ==
    {[kind |-> k, text |-> <<>>] : k \in Failures}
    \cup {[kind |-> "ok", text |-> t] : t \in TransSet}

\* One entry of the log of requests: the form parameters (the key left
\* out), what the POST came to and what translate_text returned for it
\* (<<>> when it raised instead).
Post(text, lang, formality, outcome, returned) ==
    [run |-> runs,
     text |-> text,
     target_lang |-> lang,
     formality |-> IF formality \in {"more", "less"} THEN <<formality>> ELSE <<>>,
     outcome |-> outcome.kind,
     returned |-> returned]

\* The requests one call of translate_text sends.
Posts_Twice(post) == <<post, post>>
Posts(post) == <<post>>

\* translate_text: [raised |-> the exception that leaves it or "none",
\*                  posts  |-> the requests it sent, value |-> what it returns]
translate_text(text, lang, formality, outcome) ==
    IF KeyMissing(DEEPL_API_KEY)
    THEN [raised |-> "ValueError", posts |-> <<>>, value |-> <<>>]
    ELSE CASE outcome.kind = "ok" ->
                [raised |-> "none",
                 posts |-> Posts(Post(text, lang, formality, outcome, <<outcome.text>>)),
                 value |-> outcome.text]
           [] outcome.kind \in {"ConnectionError", "HTTPError"} ->
                [raised |-> "none",
                 posts |-> Posts(Post(text, lang, formality, outcome, <<text>>)),
                 value |-> text]
           [] outcome.kind = "NoTranslations" ->
                [raised |-> "KeyError",
                 posts |-> Posts(Post(text, lang, formality, outcome, <<>>)),
                 value |-> <<>>]

\* ------------------------------------------------------------------- inputs
\* The lines script files are built from: source declarations (plain,
\* indented with an escape sequence in the text, empty), target declarations
\* (empty, white space only with indentation and a trailing comment, filled)
\* and the empty line, which is unrelated to both.
LineSet ==
    { kw_old \o <<SP, QUOTE, "x", QUOTE>>,
      <<SP>> \o kw_old \o <<SP, QUOTE, BS, "n", QUOTE>>,
      kw_old \o <<SP, QUOTE, QUOTE>>,
      kw_new \o <<SP, QUOTE, QUOTE>>,
      <<SP>> \o kw_new \o <<SP, SP, QUOTE, SP, QUOTE, SP, "x">>,
      kw_new \o <<SP, QUOTE, "x", QUOTE>>,
      <<>> }

\* File contents: up to MaxLines lines joined by line breaks. A last line
\* that is empty makes the content end in a line break.
Contents == { join(ls) : ls \in UNION {[1..n -> LineSet] : n \in 0..MaxLines} }

xy == <<"x","y">>
a_rpy == <<"a",".","r","p","y">>
b_rpy == <<"b",".","r","p","y">>
notes_txt == <<"n",".","t","x","t">>

\* A script with one pair to fill, and one whose pair is filled already.
open_text ==
    join(<<kw_old \o <<SP, QUOTE, "x", QUOTE>>, kw_new \o <<SP, QUOTE, QUOTE>>, <<>> >>)
done_text ==
    join(<<kw_old \o <<SP, QUOTE, "x", QUOTE>>, kw_new \o <<SP, QUOTE, "x", QUOTE>>, <<>> >>)

File(name, content) == [name |-> name, content |-> content]
Absent == [kind |-> "absent", files |-> <<>>]
PlainFile == [kind |-> "file", files |-> <<>>]
Dir(files) == [kind |-> "dir", files |-> files]

\* Trees with one script of any content, run for the one language.
FileTrees ==
    { [d \in {german, xy} |-> IF d = german THEN Dir(<<File(a_rpy, c)>>) ELSE Absent] :
        c \in Contents }

\* Trees of every shape: each entry of game/tl is absent, a plain file, or a
\* directory of scripts and other files.
Entries ==
    { Absent, PlainFile,
      Dir(<<File(notes_txt, open_text), File(a_rpy, open_text)>>),
      Dir(<<File(a_rpy, done_text), File(b_rpy, open_text)>>) }
ShapeTrees == [{german, xy} -> Entries]

Tokens == { german, <<"G","e","r","m","a","n">>, xy }

Init ==
    /\ DEEPL_API_KEY \in BOOLEAN
    /\ \/ /\ fs \in FileTrees
          /\ args = [language |-> german, all |-> FALSE, formality |-> "default"]
       \/ /\ fs \in ShapeTrees
          /\ \/ args \in [language : Tokens, all : BOOLEAN, formality : {"default"}]
             \/ args \in [language : {german}, all : {FALSE}, formality : {"more", "less"}]
    /\ pc = "start"
    /\ target_lang = <<>>
    /\ lang_dirs = <<>>
    /\ di = 1
    /\ fi = 1
    /\ lines = <<>>
    /\ output_lines = <<>>
    /\ buffer_old_text = <<>>
    /\ requests = <<>>
    /\ trace = <<>>
    /\ processed = <<>>
    /\ written = <<>>
    /\ error = "none"
    /\ runs = 1
    /\ snapshots = <<>>

\* ------------------------------------------------------------------ actions
\* All orders in which iterdir can yield the directories of game/tl.
Orders(S) == { o \in [1..Cardinality(S) -> S] : \A i, j \in DOMAIN o : o[i] = o[j] => i = j }

\* main, from the parsed arguments to the start of the directory loop.
Main ==
    /\ pc = "start"
    /\ LET user_lang == lower(args.language)
       IN /\ target_lang' = TargetLang(user_lang)
          /\ IF args.all
             THEN /\ lang_dirs' \in Orders({d \in DOMAIN fs : IsDir(d)})
                  /\ pc' = "dirs"
             ELSE /\ lang_dirs' = <<user_lang>>
                  /\ pc' = IF Exists(user_lang) THEN "dirs" ELSE "done"
    /\ di' = 1
    /\ fi' = 1
    /\ UNCHANGED <<DEEPL_API_KEY, args, fs, lines, output_lines, buffer_old_text,
                   requests, trace, processed, written, error, runs, snapshots>>

\* for lang_dir in lang_dirs: the next directory, skipped unless it is one;
\* the end of the loop ends main.
NextDir ==
    /\ pc = "dirs"
    /\ IF di > Len(lang_dirs)
       THEN pc' = "done" /\ UNCHANGED <<di, fi>>
       ELSE IF ~IsDir(lang_dirs[di])
            THEN pc' = "dirs" /\ di' = di + 1 /\ UNCHANGED fi
            ELSE pc' = "files" /\ fi' = 1 /\ UNCHANGED di
    /\ UNCHANGED <<DEEPL_API_KEY, args, fs, target_lang, lang_dirs, lines, output_lines,
                   buffer_old_text, requests, trace, processed, written, error, runs,
                   snapshots>>

CurFiles == fs[lang_dirs[di]].files

\* for rpy_file in lang_dir.rglob("*.rpy"): entries that do not match the
\* pattern are passed over; after the last entry the directory is done.
NextEntry ==
    /\ pc = "files"
    /\ IF fi > Len(CurFiles)
       THEN pc' = "dirs" /\ di' = di + 1 /\ UNCHANGED fi
       ELSE /\ ~IsRpy(CurFiles[fi].name)
            /\ fi' = fi + 1
            /\ UNCHANGED <<pc, di>>
    /\ UNCHANGED <<DEEPL_API_KEY, args, fs, target_lang, lang_dirs, lines, output_lines,
                   buffer_old_text, requests, trace, processed, written, error, runs,
                   snapshots>>

\* process_rpy_file, up to the loop: read the file, start with nothing pending.
ReadFile ==
    /\ pc = "files"
    /\ fi <= Len(CurFiles)
    /\ IsRpy(CurFiles[fi].name)
    /\ lines' = splitlines(CurFiles[fi].content)
    /\ output_lines' = <<>>
    /\ buffer_old_text' = <<>>
    /\ trace' = <<>>
    /\ processed' = Append(processed, <<lang_dirs[di], CurFiles[fi].name>>)
    /\ pc' = "lines"
    /\ UNCHANGED <<DEEPL_API_KEY, args, fs, target_lang, lang_dirs, di, fi, requests,
                   written, error, runs, snapshots>>

CurLine == lines[Len(output_lines) + 1]
InLoop == pc = "lines" /\ Len(output_lines) < Len(lines)

\* A record of the log of handled lines: the branch taken, the text handed to
\* translate_text (<<>> when it was not called), the requests sent, what the
\* POST came to and what translate_text returned (<<>> when it raised).
Handled(kind, text, posts, outcome, ret) ==
    [kind |-> kind, text |-> text, posts |-> posts, outcome |-> outcome, ret |-> ret]

\* One iteration on a line that matches old_pattern.
SourceLine ==
    /\ InLoop
    /\ old_pattern(CurLine) # <<>>
    /\ buffer_old_text' = old_pattern(CurLine)
    /\ output_lines' = Append(output_lines, CurLine)
    /\ trace' = Append(trace, Handled("old", <<>>, <<>>, "none", <<>>))
    /\ UNCHANGED <<DEEPL_API_KEY, args, fs, pc, target_lang, lang_dirs, di, fi, lines,
                   requests, processed, written, error, runs, snapshots>>

\* One iteration on a line that matches new_pattern with a text pending and
\* a blank text of its own: translate, rebuild the line, reset. An exception
\* leaves the loop, process_rpy_file and main.
FillTarget ==
    /\ InLoop
    /\ old_pattern(CurLine) = <<>>
    /\ new_pattern(CurLine) # <<>>
    /\ HasPending(buffer_old_text)
    /\ IsBlank(new_pattern(CurLine)[1])
    /\ \E outcome \in Outcomes :
         LET r == translate_text(buffer_old_text[1], target_lang, args.formality, outcome)
             u == re_sub(r.value, CurLine)
             raised == IF r.raised # "none" THEN r.raised
                       ELSE IF ~u.ok THEN "re.error" ELSE "none"
         IN /\ requests' = requests \o r.posts
            /\ trace' = Append(trace,
                   Handled("fill", buffer_old_text, r.posts,
                           IF r.posts = <<>> THEN "none" ELSE outcome.kind,
                           IF r.raised = "none" THEN <<r.value>> ELSE <<>>))
            /\ error' = raised
            /\ IF raised # "none"
               THEN /\ pc' = "aborted"
                    /\ UNCHANGED <<output_lines, buffer_old_text>>
               ELSE /\ pc' = pc
                    /\ output_lines' = Append(output_lines, u.text)
                    /\ buffer_old_text' = ResetBuffer(buffer_old_text)
    /\ UNCHANGED <<DEEPL_API_KEY, args, fs, target_lang, lang_dirs, di, fi, lines,
                   processed, written, runs, snapshots>>

\* One iteration on a line that matches new_pattern with a text pending and
\* a text of its own: keep the line, reset.
KeepTarget ==
    /\ InLoop
    /\ old_pattern(CurLine) = <<>>
    /\ new_pattern(CurLine) # <<>>
    /\ HasPending(buffer_old_text)
    /\ ~IsBlank(new_pattern(CurLine)[1])
    /\ output_lines' = Append(output_lines, CurLine)
    /\ buffer_old_text' = ResetBuffer(buffer_old_text)
    /\ trace' = Append(trace, Handled("keep", <<>>, <<>>, "none", <<>>))
    /\ UNCHANGED <<DEEPL_API_KEY, args, fs, pc, target_lang, lang_dirs, di, fi, lines,
                   requests, processed, written, error, runs, snapshots>>

\* One iteration on any other line, a target line with nothing pending
\* included: keep the line.
OtherLine ==
    /\ InLoop
    /\ old_pattern(CurLine) = <<>>
    /\ ~(new_pattern(CurLine) # <<>> /\ HasPending(buffer_old_text))
    /\ output_lines' = Append(output_lines, CurLine)
    /\ trace' = Append(trace, Handled("other", <<>>, <<>>, "none", <<>>))
    /\ UNCHANGED <<DEEPL_API_KEY, args, fs, pc, target_lang, lang_dirs, di, fi, lines,
                   buffer_old_text, requests, processed, written, error, runs, snapshots>>

\* process_rpy_file after the loop: write the lines back over the file.
WriteFile ==
    /\ pc = "lines"
    /\ Len(output_lines) = Len(lines)
    /\ fs' = [fs EXCEPT ![lang_dirs[di]].files[fi].content = join(output_lines)]
    /\ written' = Append(written, <<lang_dirs[di], CurFiles[fi].name>>)
    /\ fi' = fi + 1
    /\ pc' = "files"
    /\ UNCHANGED <<DEEPL_API_KEY, args, target_lang, lang_dirs, di, lines, output_lines,
                   buffer_old_text, requests, trace, processed, error, runs, snapshots>>

\* The user runs the program again, with the same arguments, on the tree
\* the run before left.
Rerun ==
    /\ pc = "done"
    /\ runs < MaxRuns
    /\ runs' = runs + 1
    /\ snapshots' = Append(snapshots, fs)
    /\ pc' = "start"
    /\ processed' = <<>>
    /\ written' = <<>>
    /\ UNCHANGED <<DEEPL_API_KEY, args, fs, target_lang, lang_dirs, di, fi, lines,
                   output_lines, buffer_old_text, requests, trace, error>>

Next ==
    \/ Main
    \/ NextDir
    \/ NextEntry
    \/ ReadFile
    \/ SourceLine
    \/ FillTarget
    \/ KeepTarget
    \/ OtherLine
    \/ WriteFile
    \/ Rerun

Spec == Init /\ [][Next]_vars

\* ------------------------------------------------------------- properties
\* The vocabulary of the statements below, defined on the text of the lines
\* and on the tree, apart from the program's own decisions.
KindOf(line) ==
    IF old_pattern(line) # <<>> THEN "source"
    ELSE IF new_pattern(line) # <<>> THEN "target"
    ELSE "other"

RECURSIVE KindsOf(_)
\* The kinds of the lines of a file, in order.
KindsOf(ls) == IF ls = <<>> THEN <<>> ELSE <<KindOf(ls[1])>> \o KindsOf(Tail(ls))

SourceText(line) == old_pattern(line)[1]
TargetText(line) == new_pattern(line)[1]
OnlyWhiteSpace(t) == \A k \in 1..Len(t) : t[k] \in WhiteSpace

\* The text between the first and the last double quote of a line.
QuotedText(line) ==
    LET qs == {q \in 1..Len(line) : line[q] = QUOTE}
        first == CHOOSE q \in qs : \A r \in qs : q <= r
        last == CHOOSE q \in qs : \A r \in qs : r <= q
    IN IF qs = {} THEN <<>> ELSE SubSeq(line, first + 1, last - 1)

\* The source line whose text is pending when line i is reached, K being the
\* kinds of the lines: the last source line before i with no target line
\* between it and i; 0 when there is none.
PendingFrom(K, i) ==
    LET js == {j \in 1..(i - 1) :
                  K[j] = "source" /\ \A m \in (j + 1)..(i - 1) : K[m] # "target"}
    IN IF js = {} THEN 0 ELSE CHOOSE j \in js : \A r \in js : r <= j

\* Line i is a target line reached with a source text pending.
PendingTarget(K, i) == K[i] = "target" /\ PendingFrom(K, i) > 0

\* The scripts of the tree: the files named *.rpy of the entries that are
\* directories.
Scripts ==
    UNION { { <<d, fs[d].files[k].name>> :
                k \in {k \in 1..Len(fs[d].files) :
                         LET n == fs[d].files[k].name
                         IN Len(n) >= 4 /\ SubSeq(n, Len(n) - 3, Len(n)) = <<".","r","p","y">>} } :
            d \in {d \in DOMAIN fs : fs[d].kind = "dir"} }

ContentOf(path) ==
    LET fl == fs[path[1]].files
    IN fl[CHOOSE k \in 1..Len(fl) : fl[k].name = path[2]].content

RECURSIVE AllPosts(_)
\* The requests of a log of handled lines, in order.
AllPosts(tr) == IF tr = <<>> THEN <<>> ELSE tr[1].posts \o AllPosts(Tail(tr))

\* C1. Every target line with an empty text that is reached with a source text
\* pending is written with exactly the string translate_text returned between
\* its quotes, and every source line is written back unchanged.
C1_FilledWithReturnedText ==
    LET K == KindsOf(lines)
    IN \A i \in 1..Len(output_lines) :
          /\ (PendingTarget(K, i) /\ TargetText(lines[i]) = <<>>)
                => /\ trace[i].ret # <<>>
                   /\ QuotedText(output_lines[i]) = trace[i].ret[1]
          /\ K[i] = "source" => output_lines[i] = lines[i]

C3_TransportFailurePassThrough ==
    \A i \in 1..Len(trace) :
        trace[i].outcome = "ConnectionError"
            => /\ trace[i].ret = trace[i].text
               /\ i <= Len(output_lines)
               /\ QuotedText(output_lines[i]) = trace[i].text[1]

\* C4. With the key present, no failed request ends the run: not a failed
\* connection, not an error status, not a response without a translation.
C4_RequestFailureNeverAborts ==
    DEEPL_API_KEY =>
        \A i \in 1..Len(trace) : trace[i].outcome \in Failures => pc # "aborted"

\* C5. With the key missing no request is ever sent: every call of
\* translate_text ends the run with the ValueError instead.
C5_NoRequestWithoutKey ==
    ~DEEPL_API_KEY =>
        /\ requests = <<>>
        /\ \A i \in 1..Len(trace) :
              trace[i].kind = "fill"
                  => /\ trace[i].posts = <<>>
                     /\ pc = "aborted"
                     /\ error = "ValueError"

\* C5, witness: a run without the key that reached a line to fill and ended.
C5_Witness ==
    /\ ~DEEPL_API_KEY
    /\ pc = "aborted"
    /\ error = "ValueError"
    /\ trace # <<>>
    /\ trace[Len(trace)].kind = "fill"

\* C6. Files are processed one after the other, each written before the next
\* is read, none twice; with --all only scripts of directories of game/tl are
\* processed, and all of them once the run completes; without --all, a
\* language directory that does not exist leaves no file processed or written
\* and the tree as it was.
C6_DirectoryOrchestration ==
    LET dir == lower(args.language)
    IN /\ Len(written) <= Len(processed)
       /\ Len(processed) <= Len(written) + 1
       /\ written = SubSeq(processed, 1, Len(written))
       /\ \A i, j \in 1..Len(processed) : processed[i] = processed[j] => i = j
       /\ args.all => {processed[i] : i \in 1..Len(processed)} \subseteq Scripts
       /\ (args.all /\ pc = "done")
             => /\ {processed[i] : i \in 1..Len(processed)} = Scripts
                /\ written = processed
       /\ (~args.all /\ (dir \notin DOMAIN fs \/ fs[dir].kind = "absent"))
             => /\ pc \in {"start", "done"}
                /\ processed = <<>>
                /\ written = <<>>
                /\ requests = <<>>
                /\ \A k \in 1..Len(snapshots) : snapshots[k] = fs

\* C6, witness: a completed --all run over two directories and three scripts.
C6_Witness ==
    /\ args.all
    /\ pc = "done"
    /\ Len(written) = 3
    /\ Cardinality({written[i][1] : i \in 1..Len(written)}) = 2

\* C7. The language code is resolved once from the token: the mapped code
\* when the lower-cased token is a key of the mapping ("german" gives DE),
\* the upper-cased token otherwise ("xy" gives XY); every request of every
\* run carries it.
C7_OneResolvedCode ==
    LET low == lower(args.language)
        code == IF low \in DOMAIN LANGUAGE_MAP THEN LANGUAGE_MAP[low]
                ELSE upper(args.language)
    IN /\ (pc # "start" \/ runs > 1) => target_lang = code
       /\ \A k \in 1..Len(requests) : requests[k].target_lang = code
       /\ low = german => code = <<"D","E">>
       /\ args.language = xy => code = <<"X","Y">>

\* C7, witness: a completed --all run for the token "xy" that sent requests
\* for scripts of two directories, each carrying XY.
C7_Witness ==
    /\ args.language = xy
    /\ args.all
    /\ pc = "done"
    /\ Len(written) = 3
    /\ Len(requests) = 2
    /\ \A k \in 1..Len(requests) : requests[k].target_lang = <<"X","Y">>

\* C8. Handling a line sends exactly one request when the line is a target
\* line with a blank text reached with a source text pending (and the key
\* is present), and none otherwise; a target line with nothing pending is
\* written back as it is. The requests of the file are those and no others.
C8_OneRequestPerFilledLine ==
    LET K == KindsOf(SubSeq(lines, 1, Len(trace)))
        sent == AllPosts(trace)
    IN /\ Len(requests) >= Len(sent)
       /\ SubSeq(requests, Len(requests) - Len(sent) + 1, Len(requests)) = sent
       /\ (runs = 1 /\ Len(processed) = 1) => requests = sent
       /\ \A i \in 1..Len(trace) :
             LET fill == PendingTarget(K, i) /\ OnlyWhiteSpace(TargetText(lines[i]))
             IN /\ Len(trace[i].posts) = IF fill /\ DEEPL_API_KEY THEN 1 ELSE 0
                /\ (trace[i].kind = "fill") = fill
                /\ (K[i] = "target" /\ PendingFrom(K, i) = 0)
                      => /\ i <= Len(output_lines)
                         /\ output_lines[i] = lines[i]

\* C8, witness: a file in which one target line was filled with one request
\* and an empty target line with nothing pending was left as it was.
C8_Witness ==
    /\ DEEPL_API_KEY
    /\ \E i, j \in 1..Len(output_lines) :
          /\ Len(trace[i].posts) = 1
          /\ output_lines[i] # lines[i]
          /\ KindOf(lines[j]) = "target"
          /\ TargetText(lines[j]) = <<>>
          /\ PendingFrom(KindsOf(lines), j) = 0
          /\ output_lines[j] = lines[j]

\* C9. The pending text is that of the last source line handled, unless a
\* target line was handled after it: empty at the start of every file, set
\* only by a source line, kept over unrelated lines, empty after every target
\* line; so no more target lines are filled than source lines were seen.
C9_PendingBuffer ==
    LET n == Len(output_lines)
        K == KindsOf(SubSeq(lines, 1, n))
        from == PendingFrom(K, n + 1)
    IN /\ buffer_old_text = IF from = 0 THEN <<>> ELSE <<SourceText(lines[from])>>
       /\ (n = 0 /\ pc = "lines") => buffer_old_text = <<>>
       /\ (n > 0 /\ K[n] = "target") => buffer_old_text = <<>>
       /\ (n > 0 /\ K[n] = "source") => buffer_old_text = <<SourceText(lines[n])>>
       /\ Cardinality({i \in 1..Len(trace) : trace[i].kind = "fill"})
             <= Cardinality({i \in 1..n : K[i] = "source"})

\* C9, witness: a text that stayed pending over an unrelated line, was used
\* by the target line after it and is pending no more.
C9_Witness ==
    /\ Len(output_lines) = 3
    /\ KindOf(lines[1]) = "source"
    /\ lines[2] = <<>>
    /\ KindOf(lines[3]) = "target"
    /\ trace[3].kind = "fill"
    /\ trace[3].ret # <<>>
    /\ buffer_old_text = <<>>

\* C10. A second run over a file the first run processed, every translation
\* of the first run having been non-blank, sends no request and writes back
\* what the first run wrote.
C10_RerunIdempotent ==
    (/\ runs = 2
     /\ pc = "done"
     /\ \A k \in 1..Len(requests) :
           requests[k].run = 1
               => requests[k].returned # <<>> /\ ~OnlyWhiteSpace(requests[k].returned[1]))
        => /\ \A k \in 1..Len(requests) : requests[k].run = 1
           /\ fs = snapshots[1]

====
